---- MODULE Spec2Model ----
(***************************************************************************)
(* Parquet Viewer (src/app.py): the paginated row-group access engine      *)
(* (read_page_efficiently), the filter path and pagination of              *)
(* render_data_tab, metadata loading, and the Streamlit session state      *)
(* that render_sidebar / render_data_tab read and write on every script    *)
(* run.                                                                    *)
(*                                                                         *)
(* Scaling.  The widget presets of the program are large numbers (page     *)
(* sizes 10..1000, threshold 1000..1000000).  The model keeps their        *)
(* structure and scales the values down: page sizes are 1..MaxPageSize,    *)
(* the threshold ranges over MinThreshold..MaxThreshold, and files have a  *)
(* handful of rows, so that both branches of read_page_efficiently and     *)
(* every clamp are exercised.                                              *)
(*                                                                         *)
(* A row is identified by its physical position, [rg |-> row group id,     *)
(* idx |-> position inside the row group]; a DataFrame is the set of its   *)
(* columns and the sequence of its rows.                                   *)
(***************************************************************************)
EXTENDS Integers, Sequences, FiniteSets, TLC

VARIABLES
    \* st.session_state (initialize_session_state)
    uploaded_file, parquet_file, total_rows, num_row_groups, columns,
    filter_column, filter_value, page_size, current_page, selected_columns,
    max_rows_full_load,
    \* widget state kept by Streamlit between script runs
    file_uploader, filter_column_select,
    \* what the last script run did in the data tab
    status,               \* "idle" | "ok" | "KeyError"
    strategy,             \* "none" | "full" | "partial" | "filter"
    shown,                \* the DataFrame handed to st.dataframe
    filtered,             \* rows of df after the filter (len(df) of the caption)
    row_group_offsets,    \* the offset table of the partial-load branch
    read_row_group_calls, \* row group ids passed to read_row_group, in order
    \* driver of the page-by-page read (PageSpec)
    pages_read            \* concatenation of the pages read so far

vars == <<uploaded_file, parquet_file, total_rows, num_row_groups, columns,
          filter_column, filter_value, page_size, current_page,
          selected_columns, max_rows_full_load, file_uploader,
          filter_column_select, status, strategy, shown, filtered,
          row_group_offsets, read_row_group_calls, pages_read>>

----------------------------------------------------------------------------
(* Bounds and scaled program constants *)

MaxGroups == 3          \* row groups per generated file
MaxGroupRows == 2       \* rows per row group of a generated file
MaxPageSize == 3        \* page-size presets are 1..MaxPageSize
MaxThreshold == 4       \* upper end of the threshold widget (scaled)
MinThreshold == 1       \* lower end of the threshold widget (scaled)
DEFAULT_PAGE_SIZE == 2  \* second preset (index=1), scaled
DEFAULT_MAX_ROWS_FULL_LOAD == MaxThreshold

PageSizeOptions == 1..MaxPageSize
\* the two ends of the threshold widget's range
ThresholdOptions == {MinThreshold, MaxThreshold}

----------------------------------------------------------------------------
(* Python values *)

None == "None"          \* None where a column name is expected
NoneColumns == {}        \* selected_columns = None (all columns)
NoneNum == -1           \* None where a number is expected
EmptyStr == <<>>        \* ""

Min(a, b) == IF a <= b THEN a ELSE b
Max(a, b) == IF a >= b THEN a ELSE b

\* s[a:b] for 0 <= a, clamped to the available length (iloc / list slicing)
Slice(s, a, b) == SubSeq(s, a + 1, Min(b, Len(s)))

RECURSIVE SumSeq(_)
SumSeq(s) == IF s = <<>> THEN 0 ELSE s[1] + SumSeq(Tail(s))

----------------------------------------------------------------------------
(* The file-format library: a parsed file and its reads *)

\* uploaded_file is None / parquet_file is None
NoFile == [name |-> "None", valid |-> FALSE, row_groups |-> <<>>,
           schema |-> <<>>, data |-> <<>>]

\* parquet_file.metadata.num_rows
NumRows(pf) == SumSeq(pf.row_groups)

\* parquet_file.metadata.num_row_groups
NumRowGroups(pf) == Len(pf.row_groups)

\* [field.name for field in parquet_file.schema_arrow]
ColumnNames(pf) == [i \in 1..Len(pf.schema) |-> pf.schema[i].name]

ColumnSet(pf) == {pf.schema[i].name : i \in 1..Len(pf.schema)}

\* columns=None reads every column
ResolveColumns(pf, cols) == IF cols = NoneColumns THEN ColumnSet(pf) ELSE cols

\* parquet_file.read_row_group(rg_idx, columns=columns).to_pandas()
ReadRowGroup(pf, rg_idx, cols) ==
    [columns |-> ResolveColumns(pf, cols),
     rows |-> [k \in 1..pf.row_groups[rg_idx + 1] |-> [rg |-> rg_idx, idx |-> k - 1]]]

\* pd.concat(chunks, ignore_index=True) over the row groups ids, in order
RECURSIVE ConcatRows(_, _, _)
ConcatRows(pf, ids, cols) ==
    IF ids = <<>> THEN <<>>
    ELSE ReadRowGroup(pf, ids[1], cols).rows \o ConcatRows(pf, Tail(ids), cols)

\* parquet_file.read(columns=columns).to_pandas(): every row group in file order
ReadAll(pf, cols) ==
    [columns |-> ResolveColumns(pf, cols),
     rows |-> ConcatRows(pf, [i \in 1..NumRowGroups(pf) |-> i - 1], cols)]

\* pd.DataFrame()
EmptyDataFrame == [columns |-> {}, rows |-> <<>>]

----------------------------------------------------------------------------
(* read_page_efficiently *)

\* A faulty variant: the running offset is not advanced (current_offset += num_rows lost)
RowGroupOffsetsNoAdvance(pf) ==
    [i \in 1..NumRowGroups(pf) |->
        [start |-> 0, end |-> pf.row_groups[i], rg_idx |-> i - 1]]

\* the loop of lines 108-115: (current_offset, current_offset + num_rows, rg_idx)
RECURSIVE OffsetsFrom(_, _, _)
OffsetsFrom(counts, rg_idx, current_offset) ==
    IF counts = <<>> THEN <<>>
    ELSE <<[start |-> current_offset, end |-> current_offset + counts[1],
            rg_idx |-> rg_idx]>>
         \o OffsetsFrom(Tail(counts), rg_idx + 1, current_offset + counts[1])

RowGroupOffsets(pf) == OffsetsFrom(pf.row_groups, 0, 0)

\* if end > start_row and start < end_row
Overlaps(e, start_row, end_row) == e.end > start_row /\ e.start < end_row

\* the row groups the loop of lines 119-123 decodes, in table order
OverlappingGroups(offsets, start_row, end_row) ==
    SelectSeq(offsets, LAMBDA e : Overlaps(e, start_row, end_row))

StartRow(page, psize) == (page - 1) * psize
EndRow(page, psize, nrows) == Min(StartRow(page, psize) + psize, nrows)

\* total_pages = max(1, (total_rows + page_size - 1) // page_size)
TotalPages(nrows, psize) == Max(1, (nrows + psize - 1) \div psize)

ReadPageEfficiently(pf, page, psize, cols, threshold) ==
    LET nrows == NumRows(pf)
        start_row == StartRow(page, psize)
        end_row == EndRow(page, psize, nrows)
    IN  IF nrows <= threshold
        THEN LET df == ReadAll(pf, cols)
             IN  [df |-> [columns |-> df.columns,
                          rows |-> Slice(df.rows, start_row, end_row)],
                  strategy |-> "full",
                  row_group_offsets |-> <<>>,
                  read_row_group_calls |-> <<>>]
        ELSE LET offsets == RowGroupOffsets(pf)
                 hit == OverlappingGroups(offsets, start_row, end_row)
                 ids == [i \in 1..Len(hit) |-> hit[i].rg_idx]
                 rows == ConcatRows(pf, ids, cols)
                 page_start == IF offsets # <<>>
                               THEN start_row - offsets[1].start ELSE 0
             IN  [df |-> IF ids # <<>>
                         THEN [columns |-> ResolveColumns(pf, cols),
                               rows |-> Slice(rows, page_start, page_start + psize)]
                         ELSE EmptyDataFrame,
                  strategy |-> "partial",
                  row_group_offsets |-> offsets,
                  read_row_group_calls |-> ids]

----------------------------------------------------------------------------
(* The filter path of render_data_tab and paginate_dataframe *)

\* global (file-order) index of a row, 0-based
GlobalIndex(pf, r) == SumSeq(SubSeq(pf.row_groups, 1, r.rg)) + r.idx

\* the cell of row r in column col: [null |-> BOOLEAN, v |-> value]
Cell(pf, col, r) == pf.data[col][GlobalIndex(pf, r) + 1]

ColumnIndex(pf, col) == CHOOSE i \in 1..Len(pf.schema) : pf.schema[i].name = col

\* field.type of the column in the file's schema
SchemaType(pf, col) == pf.schema[ColumnIndex(pf, col)].type

HasNull(pf, col) == \E i \in 1..Len(pf.data[col]) : pf.data[col][i].null

\* df[col].dtype after to_pandas(): strings are object; integers with a null
\* become float64
Dtype(pf, col) ==
    IF SchemaType(pf, col) = "string" THEN "object"
    ELSE IF HasNull(pf, col) THEN "float64" ELSE "int64"

Digit(n) == <<"0", "1", "2", "3", "4", "5", "6", "7", "8", "9">>[n + 1]

\* one element of df[col].astype(str): str(None) = "None", str(nan) = "nan",
\* str(1.0) = "1.0", str(1) = "1"
AstypeStr(dtype, cell) ==
    IF dtype = "object"
    THEN IF cell.null THEN <<"N", "o", "n", "e">> ELSE cell.v
    ELSE IF dtype = "float64"
    THEN IF cell.null THEN <<"n", "a", "n">> ELSE <<Digit(cell.v), ".", "0">>
    ELSE <<Digit(cell.v)>>

LowerChar(c) ==
    IF c = "A" THEN "a" ELSE IF c = "N" THEN "n" ELSE IF c = "O" THEN "o" ELSE c

Lower(s) == [i \in 1..Len(s) |-> LowerChar(s[i])]

\* Series.str.contains(val, case=False) for a pattern without metacharacters
StrContains(s, val) ==
    \E i \in 1..(Len(s) - Len(val) + 1) :
        SubSeq(Lower(s), i, i + Len(val) - 1) = Lower(val)

\* the row mask of lines 382-385
FilterMatch(pf, col, val, r) ==
    LET dtype == Dtype(pf, col)
        str == AstypeStr(dtype, Cell(pf, col, r))
    IN  IF dtype = "object" THEN StrContains(str, val) ELSE str = val

\* df = df[mask]
FilterRows(pf, rows, col, val) ==
    SelectSeq(rows, LAMBDA r : FilterMatch(pf, col, val, r))

\* paginate_dataframe
PaginateDataframe(rows, page, psize) ==
    LET n == Len(rows)
        total_pages == Max(1, (n + psize - 1) \div psize)
        p == Max(1, Min(page, total_pages))
        start_idx == (p - 1) * psize
        end_idx == Min(start_idx + psize, n)
    IN  [rows |-> Slice(rows, start_idx, end_idx), total_pages |-> total_pages]

----------------------------------------------------------------------------
(* load_parquet_metadata and the session update of render_sidebar *)

\* (parquet_file, total_rows, num_row_groups, columns), or four Nones when
\* pq.ParquetFile or the metadata reads raise
LoadParquetMetadata(up) ==
    IF up.valid
    THEN [parquet_file |-> up, total_rows |-> NumRows(up),
          num_row_groups |-> NumRowGroups(up), columns |-> ColumnNames(up)]
    ELSE [parquet_file |-> NoFile, total_rows |-> NoneNum,
          num_row_groups |-> NoneNum, columns |-> <<>>]

\* A faulty variant: only the parquet_file assignment is guarded by the None test
SessionAfterLoadUnguarded(up, old) ==
    IF up = NoFile THEN old
    ELSE LET m == LoadParquetMetadata(up)
         IN  [parquet_file |-> IF m.parquet_file # NoFile
                               THEN m.parquet_file ELSE old.parquet_file,
              total_rows |-> m.total_rows,
              num_row_groups |-> m.num_row_groups,
              columns |-> m.columns,
              uploaded_file |-> IF m.parquet_file # NoFile
                                THEN up ELSE old.uploaded_file]

\* lines 231-240: the five session fields after the upload block
SessionAfterLoad(up, old) ==
    IF up = NoFile THEN old
    ELSE LET m == LoadParquetMetadata(up)
         IN  IF m.parquet_file # NoFile
             THEN [parquet_file |-> m.parquet_file, total_rows |-> m.total_rows,
                   num_row_groups |-> m.num_row_groups, columns |-> m.columns,
                   uploaded_file |-> up]
             ELSE old

----------------------------------------------------------------------------
(* render_data_tab, from the page clamp on (lines 350-405) *)

\* What the data tab does for the session values of this run.  nrows is
\* st.session_state.total_rows, cp is st.session_state.current_page.
RenderDataTab(pf, nrows, sel, fcol, fval, threshold, psize, cp) ==
    LET total_pages == TotalPages(nrows, psize)
        page == Max(1, Min(cp, total_pages))
    IN  IF fcol # None /\ fval # EmptyStr
        THEN LET df == ReadAll(pf, sel)
             IN  IF fcol \notin df.columns
                 THEN \* df[col] raises KeyError; the script run ends here
                      [current_page |-> cp, status |-> "KeyError",
                       strategy |-> "filter", shown |-> EmptyDataFrame,
                       filtered |-> <<>>, row_group_offsets |-> <<>>,
                       read_row_group_calls |-> <<>>]
                 ELSE LET rows == FilterRows(pf, df.rows, fcol, fval)
                          pg == PaginateDataframe(rows, page, psize)
                      IN  [current_page |-> Min(page, pg.total_pages),
                           status |-> "ok", strategy |-> "filter",
                           shown |-> [columns |-> df.columns, rows |-> pg.rows],
                           filtered |-> rows, row_group_offsets |-> <<>>,
                           read_row_group_calls |-> <<>>]
        ELSE LET r == ReadPageEfficiently(pf, page, psize, sel, threshold)
             IN  [current_page |-> cp, status |-> "ok",
                  strategy |-> r.strategy, shown |-> r.df, filtered |-> <<>>,
                  row_group_offsets |-> r.row_group_offsets,
                  read_row_group_calls |-> r.read_row_group_calls]

----------------------------------------------------------------------------
(* One script run (main): render_sidebar, then the data tab *)

Session == [parquet_file |-> parquet_file, total_rows |-> total_rows,
            num_row_groups |-> num_row_groups, columns |-> columns,
            uploaded_file |-> uploaded_file]

\* up: the file held by the uploader; selw, fcolw, fvalw, threshold, psize:
\* the values of the multiselect, the filter selectbox, the filter text
\* input, the threshold number input and the page-size selectbox; cp: the
\* session's current_page when the run starts.
ScriptRun(up, selw, fcolw, fvalw, threshold, psize, cp) ==
    LET s == SessionAfterLoad(up, Session)
    IN  /\ file_uploader' = up
        /\ parquet_file' = s.parquet_file
        /\ total_rows' = s.total_rows
        /\ num_row_groups' = s.num_row_groups
        /\ columns' = s.columns
        /\ uploaded_file' = s.uploaded_file
        /\ pages_read' = <<>>
        /\ IF s.parquet_file = NoFile
           THEN \* nothing below line 246 is rendered
                /\ current_page' = cp
                /\ status' = "idle"
                /\ strategy' = "none"
                /\ shown' = EmptyDataFrame
                /\ filtered' = <<>>
                /\ row_group_offsets' = <<>>
                /\ read_row_group_calls' = <<>>
                /\ UNCHANGED <<filter_column, filter_value, page_size,
                               selected_columns, max_rows_full_load,
                               filter_column_select>>
           ELSE LET \* widgets whose options changed start from their default
                    fresh == s.columns # columns
                    sel == IF fresh THEN NoneColumns ELSE selw
                    fcol == IF fresh THEN None ELSE fcolw
                    fval == IF fcol # None THEN fvalw ELSE EmptyStr
                    d == RenderDataTab(s.parquet_file, s.total_rows, sel, fcol,
                                       fval, threshold, psize, cp)
                IN  /\ selected_columns' = sel
                    /\ filter_column_select' = fcol
                    /\ filter_column' = fcol
                    /\ filter_value' = fval
                    /\ max_rows_full_load' = threshold
                    /\ page_size' = psize
                    /\ current_page' = d.current_page
                    /\ status' = d.status
                    /\ strategy' = d.strategy
                    /\ shown' = d.shown
                    /\ filtered' = d.filtered
                    /\ row_group_offsets' = d.row_group_offsets
                    /\ read_row_group_calls' = d.read_row_group_calls

----------------------------------------------------------------------------
(* Files offered to the uploader *)

Str(v) == [null |-> FALSE, v |-> v]
Num(n) == [null |-> FALSE, v |-> n]
NullStr == [null |-> TRUE, v |-> <<>>]
NullNum == [null |-> TRUE, v |-> 0]

\* 4 rows in 3 row groups; string column a and integer column b, both with nulls
FileA == [name |-> "A", valid |-> TRUE, row_groups |-> <<2, 1, 1>>,
          schema |-> <<[name |-> "a", type |-> "string"],
                       [name |-> "b", type |-> "int64"]>>,
          data |-> [c \in {"a", "b"} |->
                      IF c = "a"
                      THEN <<Str(<<"N", "a">>), NullStr, Str(<<"a", "n">>), Str(<<"o">>)>>
                      ELSE <<Num(1), NullNum, Num(1), Num(2)>>]]

\* 3 rows in 2 row groups; integer column c without nulls
FileB == [name |-> "B", valid |-> TRUE, row_groups |-> <<1, 2>>,
          schema |-> <<[name |-> "a", type |-> "string"],
                       [name |-> "c", type |-> "int64"]>>,
          data |-> [c \in {"a", "c"} |->
                      IF c = "a"
                      THEN <<Str(<<"a">>), Str(<<"N">>), Str(<<"z">>)>>
                      ELSE <<Num(1), Num(2), Num(1)>>]]

\* an empty file: no row groups, no rows
FileE == [name |-> "E", valid |-> TRUE, row_groups |-> <<>>,
          schema |-> <<[name |-> "a", type |-> "string"]>>,
          data |-> [c \in {"a"} |-> <<>>]]

\* bytes that are not a parquet file: pq.ParquetFile raises
FileX == [name |-> "X", valid |-> FALSE, row_groups |-> <<>>,
          schema |-> <<>>, data |-> <<>>]

Catalog == {FileA, FileB, FileE, FileX}

FilterValues == {<<"N">>, <<"n", "a", "n">>, <<"1">>, <<"z">>}

----------------------------------------------------------------------------
(* The session: one action per user interaction, each a whole script run *)

Init ==
    /\ uploaded_file = NoFile
    /\ parquet_file = NoFile
    /\ total_rows = 0
    /\ num_row_groups = 0
    /\ columns = <<>>
    /\ filter_column = None
    /\ filter_value = EmptyStr
    /\ page_size = DEFAULT_PAGE_SIZE
    /\ current_page = 1
    /\ selected_columns = NoneColumns
    /\ max_rows_full_load = DEFAULT_MAX_ROWS_FULL_LOAD
    /\ file_uploader = NoFile
    /\ filter_column_select = None
    /\ status = "idle"
    /\ strategy = "none"
    /\ shown = EmptyDataFrame
    /\ filtered = <<>>
    /\ row_group_offsets = <<>>
    /\ read_row_group_calls = <<>>
    /\ pages_read = <<>>

FileLoaded == parquet_file # NoFile

SessionColumns == {columns[i] : i \in 1..Len(columns)}

\* the page the data tab shows: max(1, min(current_page, total_pages))
ClampedPage == Max(1, Min(current_page, TotalPages(total_rows, page_size)))

\* the user puts a file into the uploader
UploadFile(f) ==
    ScriptRun(f, selected_columns, filter_column_select, filter_value,
              max_rows_full_load, page_size, current_page)

SelectColumns(S) ==
    /\ FileLoaded
    /\ ScriptRun(file_uploader, S, filter_column_select, filter_value,
                 max_rows_full_load, page_size, current_page)

SelectFilterColumn(c) ==
    /\ FileLoaded
    /\ ScriptRun(file_uploader, selected_columns, c, filter_value,
                 max_rows_full_load, page_size, current_page)

\* the text input exists only while a filter column is selected
TypeFilterValue(v) ==
    /\ FileLoaded
    /\ filter_column_select # None
    /\ ScriptRun(file_uploader, selected_columns, filter_column_select, v,
                 max_rows_full_load, page_size, current_page)

\* lines 284-288: the session's filter is cleared, the page reset, and the
\* script runs again; the selectbox keeps its value under its key
ClearFilter ==
    /\ FileLoaded
    /\ ScriptRun(file_uploader, selected_columns, filter_column_select,
                 EmptyStr, max_rows_full_load, page_size, 1)

SetMaxRowsFullLoad(t) ==
    /\ FileLoaded
    /\ ScriptRun(file_uploader, selected_columns, filter_column_select,
                 filter_value, t, page_size, current_page)

SelectPageSize(ps) ==
    /\ FileLoaded
    /\ ScriptRun(file_uploader, selected_columns, filter_column_select,
                 filter_value, max_rows_full_load, ps, current_page)

\* lines 360-362, then the rerun
PreviousPage ==
    /\ FileLoaded
    /\ ~(ClampedPage <= 1)
    /\ ScriptRun(file_uploader, selected_columns, filter_column_select,
                 filter_value, max_rows_full_load, page_size,
                 Max(1, ClampedPage - 1))

\* lines 365-367, then the rerun
NextPage ==
    /\ FileLoaded
    /\ ~(ClampedPage >= TotalPages(total_rows, page_size))
    /\ ScriptRun(file_uploader, selected_columns, filter_column_select,
                 filter_value, max_rows_full_load, page_size,
                 Min(TotalPages(total_rows, page_size), ClampedPage + 1))

Next ==
    \/ \E f \in Catalog : UploadFile(f)
    \/ \E S \in SUBSET SessionColumns : SelectColumns(S)
    \/ \E c \in {None} \cup SessionColumns : SelectFilterColumn(c)
    \/ \E v \in FilterValues \cup {EmptyStr} : TypeFilterValue(v)
    \/ ClearFilter
    \/ \E t \in ThresholdOptions : SetMaxRowsFullLoad(t)
    \/ \E ps \in PageSizeOptions : SelectPageSize(ps)
    \/ PreviousPage
    \/ NextPage

Spec == Init /\ [][Next]_vars

----------------------------------------------------------------------------
(* Reading a file page by page: read_page_efficiently on every file shape *)

RowGroupSizeSeqs == UNION {[1..n -> 0..MaxGroupRows] : n \in 0..MaxGroups}

\* a file with the given row-group row counts and one integer column
GenFile(sizes) ==
    [name |-> "G", valid |-> TRUE, row_groups |-> sizes,
     schema |-> <<[name |-> "a", type |-> "int64"]>>,
     data |-> [c \in {"a"} |-> [i \in 1..SumSeq(sizes) |-> Num(i % 10)]]]

\* a session that has loaded the file and rendered nothing yet
PageInit ==
    \E sizes \in RowGroupSizeSeqs, ps \in PageSizeOptions,
       t \in MinThreshold..MaxThreshold :
        /\ uploaded_file = GenFile(sizes)
        /\ file_uploader = GenFile(sizes)
        /\ parquet_file = GenFile(sizes)
        /\ total_rows = NumRows(GenFile(sizes))
        /\ num_row_groups = NumRowGroups(GenFile(sizes))
        /\ columns = ColumnNames(GenFile(sizes))
        /\ filter_column = None
        /\ filter_value = EmptyStr
        /\ page_size = ps
        /\ current_page = 1
        /\ selected_columns = NoneColumns
        /\ max_rows_full_load = t
        /\ filter_column_select = None
        /\ status = "idle"
        /\ strategy = "none"
        /\ shown = EmptyDataFrame
        /\ filtered = <<>>
        /\ row_group_offsets = <<>>
        /\ read_row_group_calls = <<>>
        /\ pages_read = <<>>

\* read_page_efficiently(parquet_file, page, page_size), its result kept
ReadPage(page) ==
    LET r == ReadPageEfficiently(parquet_file, page, page_size,
                                 selected_columns, max_rows_full_load)
    IN  /\ current_page' = page
        /\ status' = "ok"
        /\ strategy' = r.strategy
        /\ shown' = r.df
        /\ row_group_offsets' = r.row_group_offsets
        /\ read_row_group_calls' = r.read_row_group_calls
        /\ pages_read' = pages_read \o r.df.rows
        /\ UNCHANGED <<uploaded_file, parquet_file, total_rows, num_row_groups,
                       columns, filter_column, filter_value, page_size,
                       selected_columns, max_rows_full_load, file_uploader,
                       filter_column_select, filtered>>

ReadFirstPage ==
    /\ status = "idle"
    /\ ReadPage(1)

ReadNextPage ==
    /\ status = "ok"
    /\ current_page < TotalPages(total_rows, page_size)
    /\ ReadPage(current_page + 1)

PageNext == ReadFirstPage \/ ReadNextPage

PageSpec == PageInit /\ [][PageNext]_vars

----------------------------------------------------------------------------
(* Reference notions the properties are stated with *)

RowIds(pf) ==
    {[rg |-> g - 1, idx |-> k] : g \in 1..NumRowGroups(pf), k \in 0..(MaxGroupRows + 1)}

\* the row whose global index is g, by position in the file
RowAt(pf, g) ==
    CHOOSE r \in RowIds(pf) :
        /\ r.idx < pf.row_groups[r.rg + 1]
        /\ Cardinality({q \in RowIds(pf) :
                          /\ q.idx < pf.row_groups[q.rg + 1]
                          /\ \/ q.rg < r.rg
                             \/ q.rg = r.rg /\ q.idx < r.idx}) = g

\* the rows with global index in [lo, hi), in physical order
RowWindow(pf, lo, hi) == [k \in 1..(hi - lo) |-> RowAt(pf, lo + k - 1)]

\* the rows of page p of the unfiltered file
PageWindow(pf, p, psize) ==
    RowWindow(pf, (p - 1) * psize, Min(p * psize, NumRows(pf)))

FilterActive == filter_column # None /\ filter_value # EmptyStr

\* the entry of the offset table for row group id
EntryOf(id) == row_group_offsets[id + 1]

PageStart == StartRow(current_page, page_size)
PageEnd == EndRow(current_page, page_size, NumRows(parquet_file))

----------------------------------------------------------------------------
(* Properties *)

\* C1: for every file, page size and valid page number, the page returned by
\* read_page_efficiently is exactly the rows with global index in
\* [start_row, end_row), in physical order, in the full-load branch and in
\* the partial-load branch alike.
C1_PageIsRowWindow ==
    status = "ok" =>
        shown.rows = PageWindow(parquet_file, current_page, page_size)

\* C2: the pages 1..total_page_count, concatenated in order, are the full row
\* sequence of the file, every row once.
C2_PagesCoverFile ==
    (status = "ok" /\ current_page = TotalPages(total_rows, page_size)) =>
        pages_read = RowWindow(parquet_file, 0, NumRows(parquet_file))

\* C3: in the partial-load branch the offset table is contiguous and sorted
\* (starts at 0, each end is the next start, ends at total_rows), every row
\* index of [start_row, end_row) lies in the interval of exactly one decoded
\* row group, and the row groups are decoded in ascending id.
C3_OffsetTableAndLocate ==
    strategy = "partial" =>
        LET t == row_group_offsets
            n == Len(t)
            ids == read_row_group_calls
        IN  /\ n = NumRowGroups(parquet_file)
            /\ n > 0
            /\ t[1].start = 0
            /\ t[n].end = NumRows(parquet_file)
            /\ \A i \in 1..n : t[i].rg_idx = i - 1 /\ t[i].start <= t[i].end
            /\ \A i \in 1..(n - 1) : t[i].end = t[i + 1].start
            /\ \A g \in PageStart..(PageEnd - 1) :
                  Cardinality({i \in 1..Len(ids) :
                      EntryOf(ids[i]).start <= g /\ g < EntryOf(ids[i]).end}) = 1
            /\ \A i \in 1..Len(ids) :
                  Overlaps(EntryOf(ids[i]), PageStart, PageEnd)
            /\ \A i \in 1..(Len(ids) - 1) : ids[i] < ids[i + 1]

\* C3 witness: a partial-load page that spans two row groups, the first of
\* them not row group 0, in a file that also has a zero-row group
C3_Witness ==
    /\ strategy = "partial"
    /\ Len(read_row_group_calls) >= 2
    /\ read_row_group_calls[1] > 0
    /\ \E i \in 1..NumRowGroups(parquet_file) : parquet_file.row_groups[i] = 0

\* C4: in the partial-load branch a row group is decoded only if it holds at
\* least one row whose global index is in [start_row, end_row).
C4_DecodedOnlyIfNeeded ==
    strategy = "partial" =>
        \A i \in 1..Len(read_row_group_calls) :
            LET id == read_row_group_calls[i]
            IN  \E k \in 0..(parquet_file.row_groups[id + 1] - 1) :
                    LET g == GlobalIndex(parquet_file, [rg |-> id, idx |-> k])
                    IN  PageStart <= g /\ g < PageEnd

\* C5: when the session's current_page exceeds total_page_count, the
\* unfiltered data view shows the rows of the last valid page, without error.
C5_ShowsLastValidPage ==
    (FileLoaded /\ ~FilterActive
        /\ current_page > TotalPages(total_rows, page_size)) =>
        /\ status = "ok"
        /\ shown.rows = PageWindow(parquet_file,
                                   TotalPages(total_rows, page_size), page_size)

\* C6: while the same file stays open, the strategy used for unfiltered page
\* requests does not change (the threshold is frozen per loaded file).
C6_ThresholdFrozen ==
    [][(/\ FileLoaded
        /\ parquet_file' = parquet_file
        /\ file_uploader' = file_uploader
        /\ strategy \in {"full", "partial"}
        /\ strategy' \in {"full", "partial"}) => strategy' = strategy]_vars

\* C7: no row whose filter-column value is null is in the filtered result.
C7_NullNeverMatches ==
    (strategy = "filter" /\ status = "ok") =>
        \A i \in 1..Len(filtered) :
            ~Cell(parquet_file, filter_column, filtered[i]).null

\* C8: with an active filter, after the render current_page is within
\* 1..total_filtered_pages and the page shown is that window of the filtered
\* sequence; an empty filter result is an empty page 1 of 1.
C8_FilteredPageClamped ==
    (FileLoaded /\ FilterActive) =>
        LET n == Len(filtered)
            tfp == Max(1, (n + page_size - 1) \div page_size)
        IN  /\ status = "ok"
            /\ current_page \in 1..tfp
            /\ shown.rows = [k \in 1..(Min(current_page * page_size, n)
                                        - (current_page - 1) * page_size) |->
                                filtered[(current_page - 1) * page_size + k]]

\* C9: the session fields parquet_file, total_rows, num_row_groups and
\* columns always describe the same file, and a script run whose upload
\* fails to load leaves all four unchanged.
C9_MetadataAllOrNothing ==
    [][/\ total_rows' = NumRows(parquet_file')
       /\ num_row_groups' = NumRowGroups(parquet_file')
       /\ columns' = ColumnNames(parquet_file')
       /\ ~file_uploader'.valid =>
             UNCHANGED <<parquet_file, total_rows, num_row_groups, columns>>]_vars

\* C9 witness: a failed upload after a successful one; the session still
\* describes the earlier file
C9_Witness ==
    /\ file_uploader = FileX
    /\ parquet_file = FileA
    /\ total_rows = 4
    /\ num_row_groups = 3

\* C10: with an active filter on any column of the file and any display
\* column selection, the data view renders a page without an unhandled error.
C10_FilterRendersForAnySelection ==
    (FileLoaded /\ FilterActive /\ filter_column \in SessionColumns) =>
        status # "KeyError"

====
